---- MODULE Spec2Model ----
(***************************************************************************)
(* CodepipelineBuildDeployStack: the release pipeline EcsArmPipeline       *)
(* (Source -> Build -> Deploy), the inline buildspec run by the BuildImage *)
(* project, and the blue/green listener binding of the ALB.                *)
(*                                                                         *)
(* Text is a sequence of one-character strings, so that shell expansion,   *)
(* printf and sed are computed on the characters.                          *)
(***************************************************************************)
EXTENDS Integers, Sequences, FiniteSets, TLC

(***************************************************************************)
(* Bounds of the model.                                                    *)
(***************************************************************************)
\* Number of fragments a task-definition template is assembled from.
MaxFrags == 2
\* Number of pipeline executions (releases) that are started.
MaxExecutions == 2

(***************************************************************************)
(* Text helpers.                                                           *)
(***************************************************************************)
RECURSIVE Cat(_)
Cat(parts) ==
    IF parts = <<>> THEN <<>> ELSE Head(parts) \o Cat(Tail(parts))

\* p occurs in s starting at index i
OccursAt(s, p, i) ==
    /\ i >= 1
    /\ i + Len(p) - 1 <= Len(s)
    /\ \A k \in 1..Len(p) : s[i + k - 1] = p[k]

Contains(s, p) ==
    \E i \in 1..Len(s) : OccursAt(s, p, i)

\* number of occurrences of p in s, scanning left to right without overlap
RECURSIVE CountFrom(_, _, _)
CountFrom(s, p, i) ==
    IF i > Len(s) THEN 0
    ELSE IF OccursAt(s, p, i) THEN 1 + CountFrom(s, p, i + Len(p))
    ELSE CountFrom(s, p, i + 1)

Count(s, p) == CountFrom(s, p, 1)

(***************************************************************************)
(* Literals of the stack definition.                                       *)
(***************************************************************************)
\* container name of task_def.add_container
ContainerName == <<"w","e","b">>

\* "latest", the default of ${CODEBUILD_RESOLVED_SOURCE_VERSION:-latest}
DefaultTag == <<"l","a","t","e","s","t">>

\* the sed patterns of the two substitution commands
TaskRoleToken == <<"T","A","S","K","_","R","O","L","E","_","A","R","N">>
ExecRoleToken ==
    <<"E","X","E","C","U","T","I","O","N","_","R","O","L","E","_","A","R","N">>

\* the printf format: [{"name":"web","imageUri":"%s"}]
DescriptorFormat ==
    <<"[","{","\"","n","a","m","e","\"",":","\"">> \o ContainerName \o
    <<"\"",",","\"","i","m","a","g","e","U","r","i","\"",":","\"","%","s","\"","}","]">>

\* files declared under artifacts.files
ArtifactFiles == {"imagedefinitions.json", "output/taskdef.json", "output/appspec.yaml"}

(***************************************************************************)
(* Shell semantics of the buildspec commands.                              *)
(***************************************************************************)
\* ${name:-default}: the value when set and non-empty, the default otherwise
ParamDefault(vars, name, default) ==
    IF name \in DOMAIN vars /\ vars[name] # <<>> THEN vars[name] ELSE default

\* $name: the value when set, empty otherwise
Param(vars, name) ==
    IF name \in DOMAIN vars THEN vars[name] ELSE <<>>

\* variant: $CODEBUILD_RESOLVED_SOURCE_VERSION without the ":-latest" default
ImageTagNoDefault(vars) ==
    Param(vars, "CODEBUILD_RESOLVED_SOURCE_VERSION")

\* env.variables.IMAGE_TAG of the buildspec
ImageTag(vars) ==
    ParamDefault(vars, "CODEBUILD_RESOLVED_SOURCE_VERSION", DefaultTag)

\* $REPOSITORY_URI:$IMAGE_TAG as the docker build, docker push and printf
\* commands expand it
ImageRef(vars) ==
    Param(vars, "REPOSITORY_URI") \o <<":">> \o Param(vars, "IMAGE_TAG")

\* variant: the descriptor names $REPOSITORY_URI:latest whatever was built
DescriptorArgsDefaultTag(vars) ==
    <<Param(vars, "REPOSITORY_URI") \o <<":">> \o DefaultTag>>

\* field splitting of an unquoted expansion on blanks
RECURSIVE SplitFrom(_, _, _)
SplitFrom(s, i, cur) ==
    IF i > Len(s) THEN (IF cur = <<>> THEN <<>> ELSE <<cur>>)
    ELSE IF s[i] = " "
         THEN (IF cur = <<>> THEN <<>> ELSE <<cur>>) \o SplitFrom(s, i + 1, <<>>)
         ELSE SplitFrom(s, i + 1, Append(cur, s[i]))

Fields(s) == SplitFrom(s, 1, <<>>)

\* the arguments of the printf command: the fields of $REPOSITORY_URI:$IMAGE_TAG
DescriptorArgs(vars) == Fields(ImageRef(vars))

\* one pass of a printf format over one argument: %s is the argument
RECURSIVE FormatFrom(_, _, _)
FormatFrom(fmt, i, arg) ==
    IF i > Len(fmt) THEN <<>>
    ELSE IF OccursAt(fmt, <<"%","s">>, i) THEN arg \o FormatFrom(fmt, i + 2, arg)
    ELSE <<fmt[i]>> \o FormatFrom(fmt, i + 1, arg)

\* printf FORMAT ARGS...: the format is reused until the arguments are consumed;
\* without arguments %s is empty
RECURSIVE Printf(_, _)
Printf(fmt, args) ==
    IF args = <<>> THEN FormatFrom(fmt, 1, <<>>)
    ELSE IF Len(args) = 1 THEN FormatFrom(fmt, 1, args[1])
    ELSE FormatFrom(fmt, 1, args[1]) \o Printf(fmt, Tail(args))

\* sed "s|pat|rep|g" on a text; pat and rep hold no character special to sed
\* (the tokens are letters and underscores, the role ARNs are ARN characters)
RECURSIVE SedFrom(_, _, _, _)
SedFrom(s, pat, rep, i) ==
    IF i > Len(s) THEN <<>>
    ELSE IF OccursAt(s, pat, i) THEN rep \o SedFrom(s, pat, rep, i + Len(pat))
    ELSE <<s[i]>> \o SedFrom(s, pat, rep, i + 1)

\* variant: "s|pat|rep|" without the g flag
SedFirstOnly(s, pat, rep) ==
    IF \E i \in 1..Len(s) : OccursAt(s, pat, i)
    THEN LET i == CHOOSE j \in 1..Len(s) :
                     /\ OccursAt(s, pat, j)
                     /\ \A k \in 1..(j - 1) : ~OccursAt(s, pat, k)
         IN  SubSeq(s, 1, i - 1) \o rep \o SubSeq(s, i + Len(pat), Len(s))
    ELSE s

SedGlobal(s, pat, rep) == SedFrom(s, pat, rep, 1)

(***************************************************************************)
(* The resource graph built by CodepipelineBuildDeployStack.__init__.      *)
(***************************************************************************)
\* What the attributes the build project refers to resolve to once the stack is
\* deployed: image_repo.repository_uri, task_def.task_role.role_arn,
\* task_def.execution_role.role_arn, task_def.task_definition_arn
Resolutions ==
    { [repositoryUri |-> <<"e","c","r","/","a">>,
       taskRoleArn |-> <<"a","r","n",":","T","1">>,
       executionRoleArn |-> <<"a","r","n",":","E","1">>,
       taskDefinitionArn |-> <<"a","r","n",":","d","1">>],
      [repositoryUri |-> <<"e","c","r","/","b","-","2">>,
       taskRoleArn |-> <<"a","r","n",":","r","/","T","a","s","k">>,
       executionRoleArn |-> <<"a","r","n",":","r","/","E","x">>,
       taskDefinitionArn |-> <<"a","r","n",":","d","2">>] }

\* environment_variables of the BuildImage project
ProjectEnvironment(r) ==
    [REPOSITORY_URI |-> r.repositoryUri,
     TASK_ROLE_ARN |-> r.taskRoleArn,
     EXECUTION_ROLE_ARN |-> r.executionRoleArn,
     TASK_DEFINITION_ARN |-> r.taskDefinitionArn]

\* variant: both target groups attached to the listener
DefaultBlueAndGreen == {"BlueTG", "GreenTG"}

\* listener.add_target_groups("DefaultBlue", target_groups=[blue_tg])
DefaultBlue == {"BlueTG"}

\* blue_green_deployment_config of CodeDeployGroup
BlueGreenConfig ==
    [listener |-> "HttpListener", blue |-> "BlueTG", green |-> "GreenTG"]

\* the command lists of the inline buildspec; orTrue is the "|| true" suffix
Cmd(op, orTrue) == [op |-> op, orTrue |-> orTrue]

PreBuildCommands ==
    << Cmd("echo", FALSE),
       Cmd("aws_version", TRUE),
       Cmd("docker_login", FALSE),
       Cmd("echo", FALSE) >>

BuildCommands ==
    << Cmd("echo", FALSE),
       Cmd("echo", FALSE),
       Cmd("docker_build", FALSE) >>

\* variant: the copy of the task-definition template without "|| true"
PostBuildCommandsStrictCopy ==
    << Cmd("echo", FALSE),
       Cmd("echo", FALSE),
       Cmd("docker_push", FALSE),
       Cmd("echo", FALSE),
       Cmd("printf_descriptor", FALSE),
       Cmd("mkdir_output", FALSE),
       Cmd("cp_taskdef", FALSE),
       Cmd("cp_appspec", TRUE),
       Cmd("echo", FALSE),
       Cmd("sed_task_role", TRUE),
       Cmd("sed_execution_role", TRUE) >>

PostBuildCommands ==
    << Cmd("echo", FALSE),
       Cmd("echo", FALSE),
       Cmd("docker_push", FALSE),
       Cmd("echo", FALSE),
       Cmd("printf_descriptor", FALSE),
       Cmd("mkdir_output", FALSE),
       Cmd("cp_taskdef", TRUE),
       Cmd("cp_appspec", TRUE),
       Cmd("echo", FALSE),
       Cmd("sed_task_role", TRUE),
       Cmd("sed_execution_role", TRUE) >>

PhaseOrder == <<"pre_build", "build", "post_build">>

Commands ==
    [pre_build |-> PreBuildCommands,
     build |-> BuildCommands,
     post_build |-> PostBuildCommands]

\* variant: the Build stage added before the Source stage
StageOrderBuildFirst == <<"Build", "Source", "Deploy">>

\* the stages in the order of the pipeline.add_stage calls
StageOrder == <<"Source", "Build", "Deploy">>

\* input and output artifacts of the action of each stage
StageAction ==
    [Source |-> [inputs |-> {}, outputs |-> {"source_output"}],
     Build  |-> [inputs |-> {"source_output"}, outputs |-> {"build_output"}],
     Deploy |-> [inputs |-> {"build_output"}, outputs |-> {}]]

\* artifact files the CodeDeployEcsDeployAction takes its templates from
DeployTemplates == {"output/taskdef.json", "output/appspec.yaml"}

(***************************************************************************)
(* Inputs: what a commit of the source repository may hold.                *)
(***************************************************************************)
\* pieces of a task-definition template: the two placeholder tokens, other
\* text, and the beginning of a token
Frags ==
    { TaskRoleToken, ExecRoleToken, <<"{">>, <<"T","A","S","K","_">> }

Templates ==
    { Cat(fs) : fs \in UNION { [1..k -> Frags] : k \in 0..MaxFrags } }

AppSpecText == <<"v",":","0">>

\* the files of a commit: the two templates are optional
Commits ==
    { t @@ a : t \in {<<>>} \cup { [f \in {"app/taskdef.json"} |-> c] : c \in Templates },
               a \in {<<>>, [f \in {"app/appspec.yaml"} |-> AppSpecText]} }

\* CODEBUILD_RESOLVED_SOURCE_VERSION: unset, empty, or a commit id
Revisions ==
    { <<>> } \cup
    { [n \in {"CODEBUILD_RESOLVED_SOURCE_VERSION"} |-> v] :
        v \in { <<>>, <<"4","f">> } }

NoFiles == <<>>

(***************************************************************************)
(* State.                                                                  *)
(***************************************************************************)
VARIABLES
    attrs,         \* resolved attributes of the deployed stack
    listener,      \* target groups the default action of HttpListener forwards to
    deployments,   \* blue/green deployments completed by CodeDeployGroup
    execs,         \* pipeline executions started
    stage,         \* status of each stage in the current execution
    stageLog,      \* stages of the current execution in the order they started
    reads,         \* artifacts each started action was handed
    artifacts,     \* artifacts produced in the current execution, with their files
    revision,      \* CODEBUILD_RESOLVED_SOURCE_VERSION of the current execution
    cbPhase,       \* phase of the running build: idle, a buildspec phase, upload, done
    cbPc,          \* index of the next command of the phase
    phaseStatus,   \* pending / running / ok / failed for each phase and the upload
    ws,            \* files of the build workspace
    vars,          \* environment variables of the build
    loggedIn,      \* docker is authenticated to the registry
    localImages,   \* image references built in the build container
    pushed,        \* image references pushed by the current build
    cmdLog         \* commands of the current build in execution order

topology == <<attrs, listener, deployments>>
pipe == <<execs, stage, stageLog, reads, artifacts, revision>>
build == <<cbPhase, cbPc, phaseStatus, ws, vars, loggedIn, localImages, pushed, cmdLog>>
allVars == <<topology, pipe, build>>

Stages == {"Source", "Build", "Deploy"}
PhaseNames == {"pre_build", "build", "post_build"}

IdleStages == [s \in Stages |-> "idle"]
PendingPhases == [p \in PhaseNames \cup {"upload"} |-> "pending"]

FilesOf(a) == IF a \in DOMAIN artifacts THEN artifacts[a] ELSE NoFiles

\* the files the action of stage s is handed: those of its declared inputs
InputFiles(s) ==
    LET ins == StageAction[s].inputs
    IN  IF ins = {} THEN NoFiles ELSE FilesOf(CHOOSE a \in ins : TRUE)

ExecutionOver ==
    \/ \A s \in Stages : stage[s] = "idle"
    \/ \E s \in Stages : stage[s] = "failed"
    \/ stage[StageOrder[Len(StageOrder)]] = "ok"

Init ==
    /\ attrs \in Resolutions
    /\ listener = DefaultBlue
    /\ deployments = 0
    /\ execs = 0
    /\ stage = IdleStages
    /\ stageLog = <<>>
    /\ reads = <<>>
    /\ artifacts = <<>>
    /\ revision = <<>>
    /\ cbPhase = "idle"
    /\ cbPc = 1
    /\ phaseStatus = PendingPhases
    /\ ws = NoFiles
    /\ vars = <<>>
    /\ loggedIn = FALSE
    /\ localImages = {}
    /\ pushed = {}
    /\ cmdLog = <<>>

(***************************************************************************)
(* The pipeline EcsArmPipeline.                                            *)
(***************************************************************************)
\* a release starts: the first stage of the pipeline runs
StartExecution ==
    /\ execs < MaxExecutions
    /\ ExecutionOver
    /\ execs' = execs + 1
    /\ stage' = [IdleStages EXCEPT ![StageOrder[1]] = "running"]
    /\ stageLog' = <<StageOrder[1]>>
    /\ reads' = (StageOrder[1] :> StageAction[StageOrder[1]].inputs)
    /\ artifacts' = <<>>
    /\ revision' = <<>>
    /\ cbPhase' = "idle"
    /\ cbPc' = 1
    /\ phaseStatus' = PendingPhases
    /\ ws' = NoFiles
    /\ vars' = <<>>
    /\ loggedIn' = FALSE
    /\ localImages' = {}
    /\ pushed' = {}
    /\ cmdLog' = <<>>
    /\ UNCHANGED topology

\* a stage starts once the stage before it has succeeded
StartNextStage ==
    \E i \in 1..(Len(StageOrder) - 1) :
        /\ stage[StageOrder[i]] = "ok"
        /\ stage[StageOrder[i + 1]] = "idle"
        /\ stage' = [stage EXCEPT ![StageOrder[i + 1]] = "running"]
        /\ stageLog' = Append(stageLog, StageOrder[i + 1])
        /\ reads' = reads @@ (StageOrder[i + 1] :> StageAction[StageOrder[i + 1]].inputs)
        /\ UNCHANGED <<topology, execs, artifacts, revision, build>>

\* GitHub_Source checks out a commit of the branch into source_output
SourceAction ==
    /\ stage["Source"] = "running"
    /\ \E commit \in Commits, rev \in Revisions :
        /\ artifacts' = artifacts @@
               [a \in StageAction["Source"].outputs |-> commit]
        /\ revision' = rev
    /\ stage' = [stage EXCEPT !["Source"] = "ok"]
    /\ UNCHANGED <<topology, execs, stageLog, reads, build>>

\* the connection or the checkout fails
SourceFail ==
    /\ stage["Source"] = "running"
    /\ stage' = [stage EXCEPT !["Source"] = "failed"]
    /\ UNCHANGED <<topology, execs, stageLog, reads, artifacts, revision, build>>

(***************************************************************************)
(* The build project BuildImage running the inline buildspec.              *)
(***************************************************************************)
\* Build_ARM_Image starts a build on its input artifact
StartBuild ==
    /\ stage["Build"] = "running"
    /\ cbPhase = "idle"
    /\ ws' = InputFiles("Build")
    /\ vars' = LET base == ProjectEnvironment(attrs) @@ revision
               IN  ("IMAGE_TAG" :> ImageTag(base)) @@ base
    /\ cbPhase' = PhaseOrder[1]
    /\ cbPc' = 1
    /\ phaseStatus' = [PendingPhases EXCEPT ![PhaseOrder[1]] = "running"]
    /\ UNCHANGED <<topology, pipe, loggedIn, localImages, pushed, cmdLog>>

\* whether command op exits 0; luck is the outcome of the external service or
\* tool where the command depends on one. docker push needs the login and an
\* image of that reference in the build container; cp and sed -i fail on a
\* file that does not exist
Succeeds(op, luck) ==
    CASE op = "echo" -> TRUE
      [] op = "aws_version" -> luck
      [] op = "docker_login" -> luck
      [] op = "docker_build" -> luck
      [] op = "docker_push" -> luck /\ loggedIn /\ ImageRef(vars) \in localImages
      [] op = "printf_descriptor" -> luck
      [] op = "mkdir_output" -> luck
      [] op = "cp_taskdef" -> "app/taskdef.json" \in DOMAIN ws
      [] op = "cp_appspec" -> "app/appspec.yaml" \in DOMAIN ws
      [] op = "sed_task_role" -> "output/taskdef.json" \in DOMAIN ws
      [] op = "sed_execution_role" -> "output/taskdef.json" \in DOMAIN ws

Write(files, name, text) == (name :> text) @@ files

\* the workspace after command op has succeeded
WorkspaceAfter(op) ==
    CASE op = "printf_descriptor" ->
             Write(ws, "imagedefinitions.json",
                   Printf(DescriptorFormat, DescriptorArgs(vars)))
      [] op = "cp_taskdef" ->
             Write(ws, "output/taskdef.json", ws["app/taskdef.json"])
      [] op = "cp_appspec" ->
             Write(ws, "output/appspec.yaml", ws["app/appspec.yaml"])
      [] op = "sed_task_role" ->
             Write(ws, "output/taskdef.json",
                   SedGlobal(ws["output/taskdef.json"], TaskRoleToken,
                             Param(vars, "TASK_ROLE_ARN")))
      [] op = "sed_execution_role" ->
             Write(ws, "output/taskdef.json",
                   SedGlobal(ws["output/taskdef.json"], ExecRoleToken,
                             Param(vars, "EXECUTION_ROLE_ARN")))
      [] OTHER -> ws

\* variant: every command is run as if it carried "|| true"
ToleratedAlways(c) == TRUE

\* a command failure ends the phase unless the command carries "|| true"
Tolerated(c) == c.orTrue

\* the next command of the running phase is executed
RunCommand ==
    /\ cbPhase \in PhaseNames
    /\ phaseStatus[cbPhase] = "running"
    /\ cbPc <= Len(Commands[cbPhase])
    /\ LET c == Commands[cbPhase][cbPc]
       IN  \E luck \in BOOLEAN :
             LET ok == Succeeds(c.op, luck)
             IN  /\ cmdLog' = Append(cmdLog,
                        [phase |-> cbPhase, idx |-> cbPc, op |-> c.op, ok |-> ok])
                 /\ ws' = IF ok THEN WorkspaceAfter(c.op) ELSE ws
                 /\ loggedIn' = (loggedIn \/ (ok /\ c.op = "docker_login"))
                 /\ localImages' = IF ok /\ c.op = "docker_build"
                                   THEN localImages \cup {ImageRef(vars)}
                                   ELSE localImages
                 /\ pushed' = IF ok /\ c.op = "docker_push"
                              THEN pushed \cup {ImageRef(vars)}
                              ELSE pushed
                 /\ IF ok \/ Tolerated(c)
                    THEN /\ cbPc' = cbPc + 1
                         /\ phaseStatus' = phaseStatus
                    ELSE /\ cbPc' = cbPc
                         /\ phaseStatus' = [phaseStatus EXCEPT ![cbPhase] = "failed"]
    /\ UNCHANGED <<topology, pipe, cbPhase, vars>>

\* variant: the build phase is entered after a failed pre_build as well
PhaseAfterContinue(p, ok) ==
    CASE p = "pre_build" -> "build"
      [] p = "build" -> "post_build"
      [] p = "post_build" -> "upload"

\* the phase that follows phase p: a failed pre_build ends the build, post_build
\* runs whether or not build succeeded, the upload follows post_build
PhaseAfter(p, ok) ==
    CASE p = "pre_build" -> IF ok THEN "build" ELSE "done"
      [] p = "build" -> "post_build"
      [] p = "post_build" -> "upload"

\* the running phase ends: all its commands ran, or one of them failed
EndPhase ==
    /\ cbPhase \in PhaseNames
    /\ \/ phaseStatus[cbPhase] = "failed"
       \/ cbPc > Len(Commands[cbPhase])
    /\ LET ok == phaseStatus[cbPhase] # "failed"
           nxt == PhaseAfter(cbPhase, ok)
       IN  /\ cbPhase' = nxt
           /\ phaseStatus' =
                [p \in DOMAIN phaseStatus |->
                    IF p = cbPhase THEN (IF ok THEN "ok" ELSE "failed")
                    ELSE IF p = nxt THEN "running"
                    ELSE phaseStatus[p]]
    /\ cbPc' = 1
    /\ UNCHANGED <<topology, pipe, ws, vars, loggedIn, localImages, pushed, cmdLog>>

\* artifacts.files: the declared files found in the workspace
Collected(files) ==
    [f \in ArtifactFiles \cap DOMAIN files |-> files[f]]

\* UPLOAD_ARTIFACTS: declared paths that match nothing are skipped; the upload
\* fails only when no declared path matches
UploadArtifacts ==
    /\ cbPhase = "upload"
    /\ phaseStatus' = [phaseStatus EXCEPT !["upload"] =
                          IF DOMAIN Collected(ws) = {} THEN "failed" ELSE "ok"]
    /\ cbPhase' = "done"
    /\ UNCHANGED <<topology, pipe, cbPc, ws, vars, loggedIn, localImages, pushed, cmdLog>>

BuildSucceeded ==
    \A p \in DOMAIN phaseStatus : phaseStatus[p] = "ok"

\* the build is reported to the pipeline; a successful one delivers build_output
FinishBuild ==
    /\ stage["Build"] = "running"
    /\ cbPhase = "done"
    /\ IF BuildSucceeded
       THEN /\ stage' = [stage EXCEPT !["Build"] = "ok"]
            /\ artifacts' = artifacts @@
                   [a \in StageAction["Build"].outputs |-> Collected(ws)]
       ELSE /\ stage' = [stage EXCEPT !["Build"] = "failed"]
            /\ artifacts' = artifacts
    /\ UNCHANGED <<topology, execs, stageLog, reads, revision, build>>

(***************************************************************************)
(* The deployment group CodeDeployGroup driven by BlueGreenDeploy.         *)
(***************************************************************************)
\* the target group that takes over from the one the listener forwards to
Replacement(tgs) ==
    IF tgs = {BlueGreenConfig.blue}
    THEN {BlueGreenConfig.green}
    ELSE {BlueGreenConfig.blue}

\* a blue/green deployment completes: the listener is rebound to the
\* replacement target group
DeploySucceed ==
    /\ stage["Deploy"] = "running"
    /\ DeployTemplates \subseteq DOMAIN InputFiles("Deploy")
    /\ listener' = Replacement(listener)
    /\ deployments' = deployments + 1
    /\ stage' = [stage EXCEPT !["Deploy"] = "ok"]
    /\ UNCHANGED <<attrs, execs, stageLog, reads, artifacts, revision, build>>

\* the deployment fails or is rolled back: the listener keeps its binding
DeployFail ==
    /\ stage["Deploy"] = "running"
    /\ stage' = [stage EXCEPT !["Deploy"] = "failed"]
    /\ UNCHANGED <<topology, execs, stageLog, reads, artifacts, revision, build>>

Next ==
    \/ StartExecution
    \/ StartNextStage
    \/ SourceAction
    \/ SourceFail
    \/ StartBuild
    \/ RunCommand
    \/ EndPhase
    \/ UploadArtifacts
    \/ FinishBuild
    \/ DeploySucceed
    \/ DeployFail

Spec == Init /\ [][Next]_allVars

(***************************************************************************)
(* Properties.                                                             *)
(***************************************************************************)
Started(s) == stage[s] # "idle"

\* the commands of phase p executed so far, in execution order
Ran(p) == SelectSeq(cmdLog, LAMBDA e : e.phase = p)

\* positions of the log at which command op was executed
At(op) == { i \in 1..Len(cmdLog) : cmdLog[i].op = op }
OkAt(op) == { i \in At(op) : cmdLog[i].ok }

\* the descriptor [{"name":"web","imageUri":"<ref>"}]
DescriptorOf(ref) ==
    <<"[","{","\"","n","a","m","e","\"",":","\"","w","e","b","\"",",",
      "\"","i","m","a","g","e","U","r","i","\"",":","\"">> \o ref \o <<"\"","}","]">>

\* C1: the stages of an execution start in the order Source, Build, Deploy; Build
\* has started only if source_output was produced, Deploy only if build_output
\* was produced, and Build is handed only source_output, Deploy only build_output.
C1_StageOrder ==
    /\ \E n \in 0..3 : stageLog = SubSeq(<<"Source", "Build", "Deploy">>, 1, n)
    /\ Started("Build") =>
          /\ stage["Source"] = "ok"
          /\ "source_output" \in DOMAIN artifacts
    /\ Started("Deploy") =>
          /\ stage["Build"] = "ok"
          /\ "build_output" \in DOMAIN artifacts
    /\ "Build" \in DOMAIN reads => reads["Build"] \subseteq {"source_output"}
    /\ "Deploy" \in DOMAIN reads => reads["Deploy"] \subseteq {"build_output"}
    /\ DOMAIN reads = { s \in Stages : Started(s) }

C1_Witness ==
    /\ stage["Deploy"] = "running"
    /\ stageLog = <<"Source", "Build", "Deploy">>
    /\ reads["Deploy"] = {"build_output"}

\* C2: as long as no deployment has run, HttpListener forwards to exactly the
\* blue target group; the green one is not attached.
C2_InitialBinding ==
    deployments = 0 =>
        /\ listener = {"BlueTG"}
        /\ "GreenTG" \notin listener
        /\ Cardinality(listener) = 1

C2_Witness ==
    /\ deployments = 0
    /\ stage["Deploy"] = "running"
    /\ listener = {"BlueTG"}

C4_Substitution ==
    (OkAt("sed_task_role") # {} /\ OkAt("sed_execution_role") # {}) =>
        LET tpl == ws["app/taskdef.json"]
            out == ws["output/taskdef.json"]
            nT == Count(tpl, <<"T","A","S","K","_","R","O","L","E","_","A","R","N">>)
            nE == Count(tpl, <<"E","X","E","C","U","T","I","O","N","_",
                               "R","O","L","E","_","A","R","N">>)
        IN  /\ ~Contains(out, <<"T","A","S","K","_","R","O","L","E","_","A","R","N">>)
            /\ ~Contains(out, <<"E","X","E","C","U","T","I","O","N","_",
                                "R","O","L","E","_","A","R","N">>)
            /\ Count(out, attrs.taskRoleArn) = nT
            /\ Count(out, attrs.executionRoleArn) = nE
            /\ Len(out) = Len(tpl) + nT * (Len(attrs.taskRoleArn) - 13)
                                   + nE * (Len(attrs.executionRoleArn) - 18)

C4_Witness ==
    /\ OkAt("sed_task_role") # {}
    /\ OkAt("sed_execution_role") # {}
    /\ Contains(ws["app/taskdef.json"], TaskRoleToken)
    /\ Contains(ws["app/taskdef.json"], ExecRoleToken)
    /\ Count(ws["output/taskdef.json"], attrs.taskRoleArn) = 1
    /\ Count(ws["output/taskdef.json"], attrs.executionRoleArn) = 1

\* C5: when a template is absent its copy command fails without ending the
\* post_build phase: the phase is not failed, its commands have run in order
\* without a gap, and once the phase is over all of its commands have run.
C5_MissingTemplate ==
    LET post == Ran("post_build")
    IN  (\E i \in 1..Len(post) :
            post[i].op \in {"cp_taskdef", "cp_appspec"} /\ ~post[i].ok) =>
        /\ phaseStatus["post_build"] # "failed"
        /\ \A k \in 1..Len(post) : post[k].idx = k
        /\ \A k \in 1..Len(post) :
              /\ (post[k].op = "cp_taskdef" /\ ~post[k].ok) =>
                    /\ "app/taskdef.json" \notin DOMAIN ws
                    /\ "output/taskdef.json" \notin DOMAIN ws
              /\ (post[k].op = "cp_appspec" /\ ~post[k].ok) =>
                    /\ "app/appspec.yaml" \notin DOMAIN ws
                    /\ "output/appspec.yaml" \notin DOMAIN ws
        /\ cbPhase \in {"upload", "done"} =>
              /\ Len(post) = 11
              /\ phaseStatus["post_build"] = "ok"

C5_Witness ==
    /\ cbPhase = "done"
    /\ \E i \in At("cp_taskdef") : ~cmdLog[i].ok
    /\ \E i \in At("cp_appspec") : ~cmdLog[i].ok
    /\ \E i \in At("sed_execution_role") : ~cmdLog[i].ok
    /\ phaseStatus["post_build"] = "ok"

\* later commands of the same phase follow position i of the log
LaterInPhase(i) ==
    \E j \in (i + 1)..Len(cmdLog) : cmdLog[j].phase = cmdLog[i].phase

\* position i of the log is followed by the next command of its phase, unless it
\* is the last command of the phase or of the log
Continues(i) ==
    (i < Len(cmdLog) /\ cmdLog[i].idx < Len(Commands[cmdLog[i].phase])) =>
        /\ cmdLog[i + 1].phase = cmdLog[i].phase
        /\ cmdLog[i + 1].idx = cmdLog[i].idx + 1

\* C7 as stated: a failure of any command other than the two template copies
\* ends its phase, so that no later command of the phase runs.
C7_OnlyCopiesTolerated ==
    \A i \in 1..Len(cmdLog) :
        (~cmdLog[i].ok /\ cmdLog[i].op \notin {"cp_taskdef", "cp_appspec"}) =>
            /\ ~LaterInPhase(i)
            /\ phaseStatus[cmdLog[i].phase] = "failed"

\* C7, amended: the commands whose failure is tolerated are the five that carry
\* "|| true" (aws --version, the two template copies, the two substitutions): a
\* failure of one of them is followed by the next command of the phase, and a
\* failure of any other command ends its phase, so no later command of it runs.
C7_FiveTolerated ==
    \A i \in 1..Len(cmdLog) :
        ~cmdLog[i].ok =>
            IF cmdLog[i].op \in {"aws_version", "cp_taskdef", "cp_appspec",
                                 "sed_task_role", "sed_execution_role"}
            THEN /\ Continues(i)
                 /\ (i = Len(cmdLog) /\ cbPhase = cmdLog[i].phase) =>
                        /\ phaseStatus[cbPhase] = "running"
                        /\ cbPc = cmdLog[i].idx + 1
            ELSE /\ cmdLog[i].op \in {"docker_login", "docker_build", "docker_push",
                                      "printf_descriptor", "mkdir_output"}
                 /\ ~LaterInPhase(i)
                 /\ phaseStatus[cmdLog[i].phase] = "failed"

C7_Witness ==
    /\ cbPhase = "done"
    /\ \E i \in At("aws_version") : ~cmdLog[i].ok
    /\ \E i \in At("aws_version") : LaterInPhase(i)
    /\ \E i \in At("docker_build") : ~cmdLog[i].ok /\ ~LaterInPhase(i)
    /\ \E i \in At("docker_push") : ~cmdLog[i].ok /\ ~LaterInPhase(i)

\* C8: the commands of a build run once each, in the order of the buildspec
\* (each command comes later in the buildspec than the one run before it, by
\* phase pre_build, build, post_build and by position in the phase): the image
\* build runs only after a successful login, the push only after the image build
\* was run, the descriptor write and the template rewrite only after a
\* successful push; and an image is pushed only in a build whose login and image
\* build both succeeded.
PhaseRank(p) ==
    CASE p = "pre_build" -> 1 [] p = "build" -> 2 [] p = "post_build" -> 3

C8_LinearScript ==
    /\ \A i \in 1..(Len(cmdLog) - 1) :
          \/ PhaseRank(cmdLog[i].phase) < PhaseRank(cmdLog[i + 1].phase)
          \/ /\ cmdLog[i].phase = cmdLog[i + 1].phase
             /\ cmdLog[i].idx < cmdLog[i + 1].idx
    /\ \A j \in At("docker_build") : \E i \in OkAt("docker_login") : i < j
    /\ \A j \in At("docker_push") : \E i \in At("docker_build") : i < j
    /\ \A j \in At("printf_descriptor") \cup At("cp_taskdef") \cup At("cp_appspec")
                \cup At("sed_task_role") \cup At("sed_execution_role") :
          \E i \in OkAt("docker_push") : i < j
    /\ \A j \in OkAt("docker_push") :
          /\ \E i \in OkAt("docker_login") : i < j
          /\ \E i \in OkAt("docker_build") : i < j
    /\ pushed # {} => (OkAt("docker_login") # {} /\ OkAt("docker_build") # {})

C8_Witness ==
    /\ cbPhase = "done"
    /\ pushed # {}
    /\ Len(cmdLog) = 18
    /\ OkAt("sed_execution_role") # {}

\* C9: the tag the image is built under, pushed under and written into the
\* descriptor is the resolved source version when it is set and non-empty, and
\* "latest" otherwise; all three commands of a build use that one tag.
C9_Tag ==
    LET resolved == "CODEBUILD_RESOLVED_SOURCE_VERSION" \in DOMAIN revision
                       /\ revision["CODEBUILD_RESOLVED_SOURCE_VERSION"] # <<>>
        tag == IF resolved THEN revision["CODEBUILD_RESOLVED_SOURCE_VERSION"]
               ELSE <<"l","a","t","e","s","t">>
        ref == attrs.repositoryUri \o <<":">> \o tag
    IN  /\ localImages \subseteq {ref}
        /\ pushed \subseteq {ref}
        /\ OkAt("docker_build") # {} => localImages = {ref}
        /\ OkAt("docker_push") # {} => pushed = {ref}
        /\ OkAt("printf_descriptor") # {} =>
              ws["imagedefinitions.json"] = DescriptorOf(ref)

C9_Witness ==
    /\ OkAt("printf_descriptor") # {}
    /\ revision = [n \in {"CODEBUILD_RESOLVED_SOURCE_VERSION"} |-> <<>>]
    /\ pushed = {attrs.repositoryUri \o <<":">> \o <<"l","a","t","e","s","t">>}

\* C10: whenever the Deploy stage has started, and whenever a build was reported
\* successful, build_output holds the image descriptor and both templates.
C10_BuildOutputComplete ==
    (Started("Deploy") \/ stage["Build"] = "ok") =>
        {"imagedefinitions.json", "output/taskdef.json", "output/appspec.yaml"}
            \subseteq DOMAIN FilesOf("build_output")
====
